---------------------------- MODULE Spec2Model ----------------------------
(***************************************************************************)
(* A model of the rANS stack coder `AnsCoder<CompressedWord, State, Vec>`   *)
(* of src/src/stream/stack/mod.rs.                                          *)
(*                                                                          *)
(* The coder is generic over the word type and the state type; the model    *)
(* instantiates it with 2-bit words and a 4-bit state (the DefaultAnsCoder  *)
(* shape bits(State) = 2 * bits(CompressedWord), scaled down from u32/u64)  *)
(* so that every word, state and entropy model can be enumerated.           *)
(* PRECISION is a const generic of each encode/decode call and is carried   *)
(* by the entropy model that the call receives.                             *)
(*                                                                          *)
(* The backend is the growable buffer Vec<CompressedWord>: `write` pushes   *)
(* at the end, `read` pops from the end.                                    *)
(***************************************************************************)
EXTENDS Integers, Sequences, FiniteSets, TLC

VARIABLES
    obj,    \* what the caller holds: "none", a "coder", a detached "buf", a
            \* "guard" (view of a borrowed coder), a coder left "panicked",
            \* a "decoder" (backward cursor over buf), a "forward" cursor
            \* over buf, or a coder whose batch "failed"
    bulk,   \* AnsCoder::bulk  (meaningful while obj = "coder")
    state,  \* AnsCoder::state (meaningful while obj = "coder")
    buf,    \* a Vec<CompressedWord> owned by the caller (while obj = "buf")
    last,   \* record of the most recent call: arguments, result, coder before
    last2,  \* record of the call before that
    phase,  \* position in the encode / export / import / decode scenario
    enc,    \* the (symbol, model) pairs encoded and not yet decoded
    symbols,           \* the chunks encoded so far, one sequence of pairs each
    jump_table,        \* pos_and_state() after each chunk
    seekable_decoder,  \* a coder over a read cursor on buf: [pos, state]
    batch   \* record of the most recent batch, cursor or seek call

callVars == <<last, last2, phase, enc>>

batchVars == <<symbols, jump_table, seekable_decoder, batch>>

vars == <<obj, bulk, state, buf, last, last2, phase, enc,
          symbols, jump_table, seekable_decoder, batch>>

---------------------------------------------------------------------------
(* Widths and bounds *)

W_BITS == 2
S_BITS == 2 * W_BITS

\* bits of usize, the type of bit counts (scaled down like the word width)
USIZE_BITS == 2 * S_BITS

MaxBulk == 2
MaxSyms == 3

RECURSIVE Pow2(_)
Pow2(n) == IF n = 0 THEN 1 ELSE 2 * Pow2(n - 1)

Words == 0 .. (Pow2(W_BITS) - 1)
States == 0 .. (Pow2(S_BITS) - 1)

\* State::one() << (State::BITS - CompressedWord::BITS)
Threshold == Pow2(S_BITS - W_BITS)

---------------------------------------------------------------------------
(* Fixed-width integer arithmetic of the State type *)

Shl(x, n) == (x * Pow2(n)) % Pow2(S_BITS)
Shr(x, n) == x \div Pow2(n)

RECURSIVE BitOr(_, _)
BitOr(a, b) ==
    IF a = 0 THEN b
    ELSE IF b = 0 THEN a
    ELSE (IF (a % 2 = 1) \/ (b % 2 = 1) THEN 1 ELSE 0)
         + 2 * BitOr(a \div 2, b \div 2)

RECURSIVE BitXor(_, _)
BitXor(a, b) ==
    IF a = 0 THEN b
    ELSE IF b = 0 THEN a
    ELSE (IF (a % 2) # (b % 2) THEN 1 ELSE 0)
         + 2 * BitXor(a \div 2, b \div 2)

RECURSIVE BitLen(_)
BitLen(x) == IF x = 0 THEN 0 ELSE 1 + BitLen(x \div 2)

LeadingZeros(x) == S_BITS - BitLen(x)

\* State -> CompressedWord (`as_()`): keeps the low bits(W) bits
AsWord(x) == x % Pow2(W_BITS)

RECURSIVE Reverse(_)
Reverse(s) == IF s = <<>> THEN <<>> ELSE Append(Reverse(Tail(s)), Head(s))

Front(s) == SubSeq(s, 1, Len(s) - 1)
LastOf(s) == s[Len(s)]

---------------------------------------------------------------------------
(* Chunked decomposition of a State into CompressedWords.  These helpers    *)
(* live in the crate root.  Their iteration order is fixed by the callers   *)
(* in stack/mod.rs: into_compressed pushes `chunks.rev()` and from_binary   *)
(* of [.., a, b] exported by into_compressed is [.., a, b, 1], so the       *)
(* un-reversed iterator yields the most significant nonzero chunk first.    *)

NumChunks(x) == (BitLen(x) + W_BITS - 1) \div W_BITS

\* bit_array_to_chunks_truncated: leading zero chunks are dropped
BitArrayToChunksTruncated(x) ==
    [i \in 1 .. NumChunks(x) |-> AsWord(Shr(x, (NumChunks(x) - i) * W_BITS))]

\* bit_array_from_chunks: takes at most ceil(bits(S) / bits(W)) chunks, the
\* first one ending up most significant
MaxChunks == (S_BITS + W_BITS - 1) \div W_BITS

RECURSIVE FromChunksLoop(_, _)
FromChunksLoop(result, chunks) ==
    IF chunks = <<>> THEN result
    ELSE FromChunksLoop(BitOr(Shl(result, W_BITS), Head(chunks)), Tail(chunks))

BitArrayFromChunks(chunks) ==
    FromChunksLoop(0, SubSeq(chunks, 1, IF Len(chunks) < MaxChunks
                                        THEN Len(chunks) ELSE MaxChunks))

---------------------------------------------------------------------------
(* Entropy models (external to the coder).  A model has a fixed-point       *)
(* precision and assigns the symbols 1 .. Len(probs) adjacent intervals of  *)
(* [0, 2^prec) of widths probs[1], probs[2], ...  A probability is a value  *)
(* of a type that converts into CompressedWord, so it is below 2^W_BITS.    *)

RECURSIVE SumSeq(_)
SumSeq(s) == IF s = <<>> THEN 0 ELSE Head(s) + SumSeq(Tail(s))

Model(P, ps) == [prec |-> P, probs |-> ps]

\* The entropy models the caller chooses from: PRECISION = 1 and
\* PRECISION = bits(W), a symbol of probability 2^PRECISION, left
\* cumulatives and probabilities covering 0 .. 3, and a model that reports
\* probability 0 for one of its symbols (its other two symbols split
\* [0, 2) evenly).
Models ==
    { Model(1, <<2>>), Model(1, <<1, 0, 1>>),
      Model(2, <<1, 3>>), Model(2, <<3, 1>>), Model(2, <<2, 1, 1>>) }

NoModel == [prec |-> 0, probs |-> <<>>]

Symbols(m) == 1 .. Len(m.probs)

LeftCumulative(m, sym) == SumSeq(SubSeq(m.probs, 1, sym - 1))

\* EncoderModel::left_cumulative_and_probability
LeftCumulativeAndProbability(m, sym) ==
    IF sym \in Symbols(m)
    THEN [ok |-> TRUE, c |-> LeftCumulative(m, sym), p |-> m.probs[sym]]
    ELSE [ok |-> FALSE, c |-> 0, p |-> 0]

\* DecoderModel::quantile_function: the symbol whose interval holds quantile
Lookup(m, sym) ==
    [symbol |-> sym, c |-> LeftCumulative(m, sym), p |-> m.probs[sym]]

QuantileFunction(m, quantile) ==
    Lookup(m, CHOOSE s \in Symbols(m) :
                  /\ LeftCumulative(m, s) <= quantile
                  /\ quantile < LeftCumulative(m, s) + m.probs[s])

---------------------------------------------------------------------------
(* The coder's operations, as functions of a coder value [bulk, state] *)

Coder(b, s) == [bulk |-> b, state |-> s]

\* The documented invariant of the field `state`
WellFormed(c) == c.bulk = <<>> \/ c.state >= Threshold

\* variant of IsEmpty: looks at bulk instead of state
IsEmptyBulk(c) == c.bulk = <<>>

IsEmpty(c) == c.state = 0

\* variant of FlushState: two words are written where one suffices
FlushStateTwoWords(c) ==
    Coder(c.bulk \o <<AsWord(c.state), AsWord(Shr(c.state, W_BITS))>>,
          Shr(c.state, 2 * W_BITS))

\* variant of FlushState: the word is written but the state is not shifted
FlushStateNoShift(c) == Coder(Append(c.bulk, AsWord(c.state)), c.state)

FlushState(c) ==
    Coder(Append(c.bulk, AsWord(c.state)), Shr(c.state, W_BITS))

\* `%` by zero panics before checked_div is reached
DecodeRemainderOffState(c, probability) ==
    IF probability = 0
    THEN [outcome |-> "panic", remainder |-> 0, coder |-> c]
    ELSE [outcome |-> "ok",
          remainder |-> c.state % probability,
          coder |-> Coder(c.bulk, c.state \div probability)]

AppendQuantileToState(c, quantile, P) ==
    Coder(c.bulk, BitOr(Shl(c.state, P), quantile))

ChopQuantileOffState(c, P) ==
    [quantile |-> c.state % Pow2(P), coder |-> Coder(c.bulk, Shr(c.state, P))]

\* variant of EncodeRemainderOntoState: the remainder is dropped
EncodeRemainderDropped(c, remainder, probability) ==
    Coder(c.bulk, (c.state * probability) % Pow2(S_BITS))

EncodeRemainderOntoState(c, remainder, probability) ==
    Coder(c.bulk, (c.state * probability + remainder) % Pow2(S_BITS))

\* variants of NeedsFlush: a strict comparison, and a fixed fill threshold
NeedsFlushStrict(c, probability, P) == Shr(c.state, S_BITS - P) > probability

NeedsFlushFixed(c, probability, P) == c.state >= Threshold

NeedsFlush(c, probability, P) == Shr(c.state, S_BITS - P) >= probability

\* Encode::encode_symbol, after the model has answered (c, p)
EncodeOntoState(d, c, P) ==
    IF d.outcome # "ok"
    THEN [outcome |-> d.outcome, coder |-> d.coder]
    ELSE [outcome |-> "ok",
          coder |-> AppendQuantileToState(d.coder, c + d.remainder, P)]

\* variant of EncodeWith: the state is flushed before the model's answer is
\* looked at
EncodeWithEagerFlush(coder, lcp, P) ==
    IF ~lcp.ok
    THEN [outcome |-> "impossible",
          coder |-> IF NeedsFlush(coder, lcp.p, P) THEN FlushState(coder)
                    ELSE coder]
    ELSE EncodeOntoState(
             DecodeRemainderOffState(
                 IF NeedsFlush(coder, lcp.p, P) THEN FlushState(coder) ELSE coder,
                 lcp.p),
             lcp.c, P)

\* variant of EncodeWith: the right-sided cumulative is appended
EncodeWithRightCumulative(coder, lcp, P) ==
    IF ~lcp.ok THEN [outcome |-> "impossible", coder |-> coder]
    ELSE EncodeOntoState(
             DecodeRemainderOffState(
                 IF NeedsFlush(coder, lcp.p, P) THEN FlushState(coder) ELSE coder,
                 lcp.p),
             lcp.c + lcp.p, P)

EncodeWith(coder, lcp, P) ==
    IF ~lcp.ok THEN [outcome |-> "impossible", coder |-> coder]
    ELSE EncodeOntoState(
             DecodeRemainderOffState(
                 IF NeedsFlush(coder, lcp.p, P) THEN FlushState(coder) ELSE coder,
                 lcp.p),
             lcp.c, P)

\* Encode::encode_symbol
EncodeSymbol(coder, m, sym) ==
    EncodeWith(coder, LeftCumulativeAndProbability(m, sym), m.prec)

\* variant of TryRefillState: with no word left, a one is shifted in
TryRefillStateSentinel(c) ==
    IF c.bulk = <<>> THEN Coder(c.bulk, BitOr(Shl(c.state, W_BITS), 1))
    ELSE Coder(Front(c.bulk), BitOr(Shl(c.state, W_BITS), LastOf(c.bulk)))

\* try_refill_state: the `?` returns before `state` is assigned
TryRefillState(c) ==
    IF c.bulk = <<>> THEN c
    ELSE Coder(Front(c.bulk), BitOr(Shl(c.state, W_BITS), LastOf(c.bulk)))

\* variant of TryRefillStateIfNecessary: refills a state at the threshold too
TryRefillStateAtThreshold(c) ==
    IF c.state <= Threshold THEN TryRefillState(c) ELSE c

TryRefillStateIfNecessary(c) ==
    IF c.state < Threshold THEN TryRefillState(c) ELSE c

\* Decode::decode_symbol, after the quantile was chopped off and looked up
DecodeWith(ch, qf) ==
    [symbol |-> qf.symbol,
     coder |-> TryRefillStateIfNecessary(
                   EncodeRemainderOntoState(ch.coder, ch.quantile - qf.c, qf.p))]

DecodeChopped(ch, m) == DecodeWith(ch, QuantileFunction(m, ch.quantile))

\* Decode::decode_symbol
DecodeSymbol(coder, m) == DecodeChopped(ChopQuantileOffState(coder, m.prec), m)

\* Default::default / AnsCoder::new
NewCoder == Coder(<<>>, 0)

\* variant of FromRawParts: a state at the threshold is refused
FromRawPartsStrict(b, s) ==
    IF b = <<>> \/ s > Threshold
    THEN [ok |-> TRUE, coder |-> Coder(b, s)]
    ELSE [ok |-> FALSE, coder |-> NewCoder]

\* AnsCoder::from_raw_parts
FromRawParts(b, s) ==
    IF b = <<>> \/ s >= Threshold
    THEN [ok |-> TRUE, coder |-> Coder(b, s)]
    ELSE [ok |-> FALSE, coder |-> NewCoder]

\* AnsCoder::into_raw_parts
IntoRawParts(c) == <<c.bulk, c.state>>

\* variant of ReadUntilFull: the loop breaks only above the threshold
RECURSIVE ReadUntilAbove(_)
ReadUntilAbove(c) ==
    IF c.bulk = <<>> THEN c
    ELSE LET c1 == Coder(Front(c.bulk),
                         BitOr(Shl(c.state, W_BITS), LastOf(c.bulk)))
         IN  IF c1.state > Threshold THEN c1 ELSE ReadUntilAbove(c1)

RECURSIVE ReadUntilFull(_)
ReadUntilFull(c) ==
    IF c.bulk = <<>> THEN c
    ELSE LET c1 == Coder(Front(c.bulk),
                         BitOr(Shl(c.state, W_BITS), LastOf(c.bulk)))
         IN  IF c1.state >= Threshold THEN c1 ELSE ReadUntilFull(c1)

\* AnsCoder::from_compressed.  On Err the buffer is handed back as it is
\* after the first `read()`.
FromCompressed(compressed) ==
    IF compressed = <<>>
    THEN [ok |-> TRUE, coder |-> NewCoder, back |-> <<>>]
    ELSE IF LastOf(compressed) = 0
    THEN [ok |-> FALSE, coder |-> NewCoder, back |-> Front(compressed)]
    ELSE [ok |-> TRUE,
          coder |-> ReadUntilFull(Coder(Front(compressed), LastOf(compressed))),
          back |-> <<>>]

\* variant of FromBinary: the words read off `data` without the `1` chunk
FromBinaryNoSentinel(data) ==
    LET n == IF Len(data) < MaxChunks THEN Len(data) ELSE MaxChunks
        taken == Reverse(SubSeq(data, Len(data) - n + 1, Len(data)))
    IN  Coder(SubSeq(data, 1, Len(data) - n), BitArrayFromChunks(taken))

\* AnsCoder::from_binary: a `1` chunk followed by words read off `data`
FromBinary(data) ==
    LET n == IF Len(data) < MaxChunks - 1 THEN Len(data) ELSE MaxChunks - 1
        taken == Reverse(SubSeq(data, Len(data) - n + 1, Len(data)))
    IN  Coder(SubSeq(data, 1, Len(data) - n), BitArrayFromChunks(<<1>> \o taken))

\* variants of IntoCompressed: chunks pushed most significant first, and
\* chunks pushed without dropping the leading zero ones
IntoCompressedForward(c) == c.bulk \o BitArrayToChunksTruncated(c.state)

IntoCompressedUntruncated(c) ==
    c.bulk \o [i \in 1 .. MaxChunks |-> AsWord(Shr(c.state, (i - 1) * W_BITS))]

\* AnsCoder::into_compressed
IntoCompressed(c) == c.bulk \o Reverse(BitArrayToChunksTruncated(c.state))

\* variant of ValidBits: counts the bits of the state, the leading one included
ValidBitsWithSentinel(c) ==
    (S_BITS - LeadingZeros(c.state)) % Pow2(USIZE_BITS)

\* (State::BITS - 1).wrapping_sub(state.leading_zeros()): for state = 0 the
\* subtraction wraps around to usize::MAX
ValidBits(c) ==
    ((S_BITS - 1) - LeadingZeros(c.state) + Pow2(USIZE_BITS)) % Pow2(USIZE_BITS)

\* AnsCoder::into_binary
IntoBinary(c) ==
    IF \/ ValidBits(c) % W_BITS # 0
       \/ ValidBits(c) = Pow2(USIZE_BITS) - 1
    THEN [ok |-> FALSE, data |-> <<>>]
    ELSE LET truncated_state == BitXor(c.state, Shl(1, ValidBits(c)))
         IN  [ok |-> TRUE,
              data |-> c.bulk \o
                       Reverse(BitArrayToChunksTruncated(truncated_state))]

\* AnsCoder::clear
Clear(c) == NewCoder

\* variant of NumWords: counts the chunks of the state without truncation
NumWordsUntruncated(c) == Len(c.bulk) + MaxChunks

\* AnsCoder::num_words: amt_left of a Vec is its length
NumWords(c) == Len(c.bulk) + Len(BitArrayToChunksTruncated(c.state))

\* AnsCoder::num_bits
NumBits(c) == W_BITS * NumWords(c)

Max(a, b) == IF a >= b THEN a ELSE b

\* variant of NumValidBits: the leading one bit of the state is counted too
NumValidBitsWithSentinel(c) ==
    W_BITS * Len(c.bulk) + Max(S_BITS - LeadingZeros(c.state), 1)

\* AnsCoder::num_valid_bits
NumValidBits(c) ==
    W_BITS * Len(c.bulk) + Max(S_BITS - LeadingZeros(c.state), 1) - 1

\* variant of IterCompressed: the chunks of the state are not reversed
IterCompressedForward(c) == c.bulk \o BitArrayToChunksTruncated(c.state)

\* AnsCoder::iter_compressed, collected: bulk front to back, then the chunks
\* of the state reversed
IterCompressed(c) == c.bulk \o Reverse(BitArrayToChunksTruncated(c.state))

RECURSIVE WriteWords(_, _)
WriteWords(b, chunks) ==
    IF chunks = <<>> THEN b
    ELSE WriteWords(Append(b, Head(chunks)), Tail(chunks))

\* variant of CoderGuardNew: only the lowest chunk of the state is appended
CoderGuardNewLowOnly(c) ==
    Coder(IF c.state = 0 THEN c.bulk ELSE Append(c.bulk, AsWord(c.state)),
          c.state)

\* CoderGuard::new: writes the reversed chunks of the state onto bulk
CoderGuardNew(c) ==
    Coder(WriteWords(c.bulk, Reverse(BitArrayToChunksTruncated(c.state))),
          c.state)

\* `read()` once per chunk; a read off an empty Vec returns None
RECURSIVE ReadWords(_, _)
ReadWords(b, n) ==
    IF n = 0 \/ b = <<>> THEN b ELSE ReadWords(Front(b), n - 1)

\* variant of CoderGuardDrop: reads a single word
CoderGuardDropOne(c) == Coder(ReadWords(c.bulk, 1), c.state)

\* <CoderGuard as Drop>::drop
CoderGuardDrop(c) ==
    Coder(ReadWords(c.bulk, Len(BitArrayToChunksTruncated(c.state))), c.state)

---------------------------------------------------------------------------
(* Batch coding.  encode_symbols, encode_iid_symbols, decode_symbols and     *)
(* decode_iid_symbols are provided methods of the Encode and Decode traits:  *)
(* one encode_symbol or decode_symbol call per item, an encode error ending  *)
(* the loop.  A batch is a sequence of [sym, model] pairs.                   *)

Pair(sym, m) == [sym |-> sym, model |-> m]

RECURSIVE EncodeSymbols(_, _)
EncodeSymbols(coder, pairs) ==
    IF pairs = <<>> THEN [outcome |-> "ok", coder |-> coder]
    ELSE LET r == EncodeSymbol(coder, Head(pairs).model, Head(pairs).sym)
         IN  IF r.outcome # "ok" THEN r
             ELSE EncodeSymbols(r.coder, Tail(pairs))

EncodeIidSymbols(coder, syms, m) ==
    EncodeSymbols(coder, [i \in 1 .. Len(syms) |-> Pair(syms[i], m)])

\* variant of EncodeSymbolsReverse: the iterator is not reversed
EncodeSymbolsUnreversed(coder, pairs) == EncodeSymbols(coder, pairs)

\* AnsCoder::encode_syms_reverse
EncodeSymbolsReverse(coder, pairs) == EncodeSymbols(coder, Reverse(pairs))

\* variant of EncodeIidSymbolsReverse: the iterator is not reversed
EncodeIidSymbolsUnreversed(coder, syms, m) ==
    EncodeIidSymbols(coder, syms, m)

\* AnsCoder::encode_iid_syms_reverse
EncodeIidSymbolsReverse(coder, syms, m) ==
    EncodeIidSymbols(coder, Reverse(syms), m)

\* Decode::decode_symbols, collected
RECURSIVE DecodeSymbols(_, _)
DecodeSymbols(coder, models) ==
    IF models = <<>> THEN [symbols |-> <<>>, coder |-> coder]
    ELSE LET r == DecodeSymbol(coder, Head(models))
             rest == DecodeSymbols(r.coder, Tail(models))
         IN  [symbols |-> <<r.symbol>> \o rest.symbols, coder |-> rest.coder]

\* Decode::decode_iid_symbols(amt, model), collected
DecodeIidSymbols(coder, amt, m) ==
    DecodeSymbols(coder, [i \in 1 .. amt |-> m])

\* The error of a batch call: TryCodingError::CodingError(ImpossibleSymbol),
\* or TryCodingError::InvalidEntropyModel(e) with the iterator's own error e
TryError(tag, e) == [tag |-> tag, e |-> e]

NoError == TryError("none", 0)

\* An item of a fallible iterator: Ok((symbol, model)) with err = 0, or
\* Err(err)
TryItem(err, pair) == [err |-> err, pair |-> pair]

\* Encode::try_encode_symbols: the item's error is returned before anything
\* is encoded for it
RECURSIVE TryEncodeSymbols(_, _)
TryEncodeSymbols(coder, items) ==
    IF items = <<>> THEN [outcome |-> "ok", err |-> NoError, coder |-> coder]
    ELSE IF Head(items).err # 0
    THEN [outcome |-> "error",
          err |-> TryError("InvalidEntropyModel", Head(items).err),
          coder |-> coder]
    ELSE LET r == EncodeSymbol(coder, Head(items).pair.model,
                               Head(items).pair.sym)
         IN  IF r.outcome # "ok"
             THEN [outcome |-> r.outcome,
                   err |-> TryError("CodingError", 0),
                   coder |-> r.coder]
             ELSE TryEncodeSymbols(r.coder, Tail(items))

\* variant of TryEncodeSymbolsReverse: the iterator is not reversed
TryEncodeSymbolsUnreversed(coder, items) == TryEncodeSymbols(coder, items)

\* AnsCoder::try_encode_symbols_reverse
TryEncodeSymbolsReverse(coder, items) ==
    TryEncodeSymbols(coder, Reverse(items))

---------------------------------------------------------------------------
(* Read cursors over a slice `data` (backends::ReadCursorBackward and        *)
(* backends::ReadCursorForward).  A backward cursor at `pos` has the words   *)
(* data[1 .. pos] left and reads data[pos] next; a forward cursor at `pos`   *)
(* has data[pos + 1 ..] left and reads data[pos + 1] next.  A coder over a   *)
(* cursor is [pos, state]; its bulk is the view of the words left, in the    *)
(* order a Vec would pop them.                                               *)

Cursor(pos, s) == [pos |-> pos, state |-> s]

NoCursor == Cursor(0, 0)

CursorNew(data, dir) == 0 + (IF dir = "backward" THEN Len(data) ELSE 0)

CursorLeft(data, pos, dir) ==
    IF dir = "backward" THEN SubSeq(data, 1, pos)
    ELSE Reverse(SubSeq(data, pos + 1, Len(data)))

CursorPosWith(data, left, dir) ==
    IF dir = "backward" THEN Len(left) ELSE Len(data) - Len(left)

CursorAtEnd(data, pos, dir) ==
    IF dir = "backward" THEN pos = 0 ELSE pos = Len(data)

\* SeekBackend::seek(pos, must_be_end)
CursorSeek(data, pos, must_be_end, dir) ==
    /\ pos \in 0 .. Len(data)
    /\ CursorAtEnd(data, pos, dir) <=> must_be_end

\* the coder over a cursor, as a coder over the words left
OverCursor(data, cur, dir) == Coder(CursorLeft(data, cur.pos, dir), cur.state)

\* and back
AsCursor(data, c, dir) == Cursor(CursorPosWith(data, c.bulk, dir), c.state)

\* variant of SeekableDecoder: the cursor starts at the front of bulk
SeekableDecoderAtFront(c) == Cursor(0, c.state)

\* AnsCoder::seekable_decoder: a backward cursor over bulk, and the state
SeekableDecoder(c) == Cursor(CursorNew(c.bulk, "backward"), c.state)

\* Pos::pos of the encoder (the position of a Vec is its length) and the
\* state: pos_and_state()
PosAndState(c) == Cursor(Len(c.bulk), c.state)

\* variant of Seek: `state` is assigned before the backend is asked
SeekStateFirst(data, cur, target, dir) ==
    IF CursorSeek(data, target.pos, target.state < Threshold, dir)
    THEN [ok |-> TRUE, cur |-> Cursor(target.pos, target.state)]
    ELSE [ok |-> FALSE, cur |-> Cursor(cur.pos, target.state)]

\* variant of Seek: a state at the threshold counts as below it
SeekStrict(data, cur, target, dir) ==
    IF CursorSeek(data, target.pos, target.state <= Threshold, dir)
    THEN [ok |-> TRUE, cur |-> Cursor(target.pos, target.state)]
    ELSE [ok |-> FALSE, cur |-> cur]

\* Seek::seek((pos, state)): the `?` returns before `state` is assigned
Seek(data, cur, target, dir) ==
    IF CursorSeek(data, target.pos, target.state < Threshold, dir)
    THEN [ok |-> TRUE, cur |-> Cursor(target.pos, target.state)]
    ELSE [ok |-> FALSE, cur |-> cur]

\* from_compressed(ReadCursorForward::new(compressed)), which is what
\* from_reversed_compressed does
FromReversedCompressed(compressed) ==
    [ok |-> FromCompressed(CursorLeft(compressed, 0, "forward")).ok,
     cur |-> AsCursor(compressed,
                      FromCompressed(CursorLeft(compressed, 0, "forward")).coder,
                      "forward")]

---------------------------------------------------------------------------
(* The state machine: a caller that constructs a coder, encodes, decodes,   *)
(* exports and re-imports.                                                  *)

Call(op, m, sym, expect, ok, pre, prebuf) ==
    [op |-> op, model |-> m, sym |-> sym, expect |-> expect, ok |-> ok,
     pre |-> pre, prebuf |-> prebuf]

NoCall == Call("none", NoModel, 0, 0, TRUE, NewCoder, <<>>)

Self == Coder(bulk, state)

\* The caller compares a call with the one before it only where the two
\* belong together: an encode and a decode with the same model, successive
\* decodes, an export and the import of its result, a query and the call
\* it is compared with.
Follows(prev, op, m) ==
    \/ /\ prev.op = "encode_symbol"
       /\ op = "decode_symbol"
       /\ prev.model = m
    \/ /\ prev.op = "decode_symbol"
       /\ \/ op = "decode_symbol"
          \/ op = "encode_symbol" /\ prev.model = m
    \/ <<prev.op, op>> \in
         { <<"into_compressed", "from_compressed">>,
           <<"from_binary", "into_binary">>,
           <<"num_words", "into_compressed">>,
           <<"iter_compressed", "get_compressed">>,
           <<"get_compressed", "drop_guard">>,
           <<"drop_guard", "get_compressed">>,
           <<"from_raw_parts", "into_raw_parts">>,
           <<"num_bits", "num_valid_bits">> }

Remember(prev, op, m) == IF Follows(prev, op, m) THEN prev ELSE NoCall

RECURSIVE SeqsUpTo(_, _)
SeqsUpTo(S, n) ==
    IF n = 0 THEN {<<>>}
    ELSE LET shorter == SeqsUpTo(S, n - 1)
         IN  shorter \cup {Append(s, x) : s \in shorter, x \in S}

NoBatch ==
    [op |-> "none", ok |-> TRUE, pairs |-> <<>>, symbols |-> <<>>,
     pre |-> NewCoder, at |-> NoCursor, target |-> NoCursor, i |-> 0,
     after |-> "other", err |-> NoError]

Init ==
    /\ obj = "none"
    /\ bulk = <<>>
    /\ state = 0
    /\ buf = <<>>
    /\ last = NoCall
    /\ last2 = NoCall
    /\ phase = "other"
    /\ enc = <<>>
    /\ symbols = <<>>
    /\ jump_table = <<>>
    /\ seekable_decoder = NoCursor
    /\ batch = NoBatch

\* AnsCoder::new()
New ==
    /\ obj = "none"
    /\ last = NoCall
    /\ obj' = "coder"
    /\ bulk' = NewCoder.bulk
    /\ state' = NewCoder.state
    /\ last' = Call("new", NoModel, 0, 0, TRUE, NewCoder, <<>>)
    /\ last2' = last
    /\ phase' = "encoding"
    /\ enc' = <<>>
    /\ UNCHANGED buf
    /\ UNCHANGED batchVars

\* AnsCoder::from_raw_parts(b, s)
RawParts ==
    /\ obj = "none"
    /\ last = NoCall
    /\ \E b \in SeqsUpTo(Words, MaxBulk), s \in States :
         \E r \in {FromRawParts(b, s)} :
         /\ obj' = IF r.ok THEN "coder" ELSE "none"
         /\ bulk' = r.coder.bulk
         /\ state' = r.coder.state
         /\ last' = Call("from_raw_parts", NoModel, s, 0, r.ok, NewCoder, b)
    /\ last2' = last
    /\ phase' = "other"
    /\ enc' = <<>>
    /\ UNCHANGED buf
    /\ UNCHANGED batchVars

\* The caller obtains a word buffer from elsewhere
Buffer ==
    /\ obj = "none"
    /\ last = NoCall
    /\ \E v \in SeqsUpTo(Words, MaxBulk + 1) : buf' = v
    /\ obj' = "buf"
    /\ last' = Call("buffer", NoModel, 0, 0, TRUE, NewCoder, <<>>)
    /\ last2' = last
    /\ phase' = "other"
    /\ enc' = <<>>
    /\ UNCHANGED <<bulk, state>>
    /\ UNCHANGED batchVars

\* AnsCoder::from_compressed(buf)
ImportCompressed ==
    /\ obj = "buf"
    /\ \E r \in {FromCompressed(buf)} :
         /\ Len(r.coder.bulk) <= MaxBulk
         /\ obj' = IF r.ok THEN "coder" ELSE "buf"
         /\ bulk' = r.coder.bulk
         /\ state' = r.coder.state
         /\ buf' = r.back
         /\ last' = Call("from_compressed", NoModel, 0, 0, r.ok, NewCoder, buf)
         /\ phase' = IF phase = "exported" /\ r.ok THEN "decoding" ELSE "other"
         /\ enc' = IF phase = "exported" /\ r.ok THEN enc ELSE <<>>
    /\ last2' = Remember(last, "from_compressed", NoModel)
    /\ UNCHANGED batchVars

\* AnsCoder::from_binary(buf)
ImportBinary ==
    /\ obj = "buf"
    /\ \E c \in {FromBinary(buf)} :
         /\ Len(c.bulk) <= MaxBulk
         /\ bulk' = c.bulk
         /\ state' = c.state
    /\ obj' = "coder"
    /\ buf' = <<>>
    /\ last' = Call("from_binary", NoModel, 0, 0, TRUE, NewCoder, buf)
    /\ last2' = Remember(last, "from_binary", NoModel)
    /\ phase' = "other"
    /\ enc' = <<>>
    /\ UNCHANGED batchVars

\* The symbols a caller may pass with model m: those the model knows and one
\* outside its support
Alphabet(m) == 1 .. (Len(m.probs) + 1)

\* encode_symbol(sym, m).  A panic unwinds out of the call and leaves the
\* coder as it is at that point.
Encode ==
    /\ obj = "coder"
    /\ \E m \in Models : \E sym \in Alphabet(m) :
         \E r \in {EncodeSymbol(Self, m, sym)} :
         LET tracked == phase = "encoding" /\ Len(enc) < MaxSyms /\ r.outcome = "ok"
         IN
         /\ Len(r.coder.bulk) <= MaxBulk
         /\ obj' = IF r.outcome = "panic" THEN "panicked" ELSE "coder"
         /\ last2' = Remember(last, "encode_symbol", m)
         /\ bulk' = r.coder.bulk
         /\ state' = r.coder.state
         /\ last' = Call("encode_symbol", m, sym, 0, r.outcome = "ok", Self, <<>>)
         /\ phase' = IF tracked THEN "encoding" ELSE "other"
         /\ enc' = IF tracked THEN Append(enc, [sym |-> sym, model |-> m])
                   ELSE <<>>
    /\ UNCHANGED buf
    /\ UNCHANGED batchVars

\* decode_symbol(m)
Decode ==
    /\ obj = "coder"
    /\ \E m \in Models :
         \E r \in {DecodeSymbol(Self, m)} :
         LET tracked == /\ phase = "decoding"
                        /\ enc # <<>>
                        /\ LastOf(enc).model = m
         IN
         /\ last2' = Remember(last, "decode_symbol", m)
         /\ bulk' = r.coder.bulk
         /\ state' = r.coder.state
         /\ last' = Call("decode_symbol", m, r.symbol,
                         IF tracked THEN LastOf(enc).sym ELSE 0, TRUE, Self, <<>>)
         /\ phase' = IF tracked THEN "decoding" ELSE "other"
         /\ enc' = IF tracked THEN Front(enc) ELSE <<>>
    /\ UNCHANGED <<obj, buf>>
    /\ UNCHANGED batchVars

\* clear()
ClearCoder ==
    /\ obj = "coder"
    /\ bulk' = Clear(Self).bulk
    /\ state' = Clear(Self).state
    /\ last' = Call("clear", NoModel, 0, 0, TRUE, Self, <<>>)
    /\ last2' = Remember(last, "clear", NoModel)
    /\ phase' = "other"
    /\ enc' = <<>>
    /\ UNCHANGED <<obj, buf>>
    /\ UNCHANGED batchVars

\* into_compressed(): consumes the coder, returns the buffer
ExportCompressed ==
    /\ obj = "coder"
    /\ obj' = "buf"
    /\ buf' = IntoCompressed(Self)
    /\ bulk' = <<>>
    /\ state' = 0
    /\ last' = Call("into_compressed", NoModel, 0, 0, TRUE, Self, <<>>)
    /\ last2' = Remember(last, "into_compressed", NoModel)
    /\ phase' = IF phase = "encoding" THEN "exported" ELSE "other"
    /\ enc' = IF phase = "encoding" THEN enc ELSE <<>>
    /\ UNCHANGED batchVars

\* into_binary(): consumes the coder, returns Ok(buffer) or Err(())
ExportBinary ==
    /\ obj = "coder"
    /\ \E r \in {IntoBinary(Self)} :
         /\ obj' = IF r.ok THEN "buf" ELSE "none"
         /\ buf' = r.data
         /\ last' = Call("into_binary", NoModel, 0, 0, r.ok, Self, <<>>)
    /\ bulk' = <<>>
    /\ state' = 0
    /\ last2' = Remember(last, "into_binary", NoModel)
    /\ phase' = "other"
    /\ enc' = <<>>
    /\ UNCHANGED batchVars

\* num_words()
NumWordsCall ==
    /\ obj = "coder"
    /\ last' = Call("num_words", NoModel, NumWords(Self), 0, TRUE, Self, <<>>)
    /\ last2' = Remember(last, "num_words", NoModel)
    /\ UNCHANGED <<obj, bulk, state, buf, phase, enc>>
    /\ UNCHANGED batchVars

\* num_bits()
NumBitsCall ==
    /\ obj = "coder"
    /\ last' = Call("num_bits", NoModel, NumBits(Self), 0, TRUE, Self, <<>>)
    /\ last2' = Remember(last, "num_bits", NoModel)
    /\ UNCHANGED <<obj, bulk, state, buf, phase, enc>>
    /\ UNCHANGED batchVars

\* num_valid_bits()
NumValidBitsCall ==
    /\ obj = "coder"
    /\ last' = Call("num_valid_bits", NoModel, NumValidBits(Self), 0, TRUE,
                    Self, <<>>)
    /\ last2' = Remember(last, "num_valid_bits", NoModel)
    /\ UNCHANGED <<obj, bulk, state, buf, phase, enc>>
    /\ UNCHANGED batchVars

\* into_raw_parts(): consumes the coder, returns (bulk, state); the record
\* keeps the returned state, the caller the returned buffer
IntoRawPartsCall ==
    /\ obj = "coder"
    /\ obj' = "buf"
    /\ buf' = IntoRawParts(Self)[1]
    /\ bulk' = <<>>
    /\ state' = 0
    /\ last' = Call("into_raw_parts", NoModel, IntoRawParts(Self)[2], 0, TRUE,
                    Self, <<>>)
    /\ last2' = Remember(last, "into_raw_parts", NoModel)
    /\ phase' = "other"
    /\ enc' = <<>>
    /\ UNCHANGED batchVars

\* iter_compressed().collect()
IterCompressedCall ==
    /\ obj = "coder"
    /\ last' = Call("iter_compressed", NoModel, 0, 0, TRUE, Self,
                    IterCompressed(Self))
    /\ last2' = Remember(last, "iter_compressed", NoModel)
    /\ UNCHANGED <<obj, bulk, state, buf, phase, enc>>
    /\ UNCHANGED batchVars

\* get_compressed(): the coder stays mutably borrowed while the view lives
GetCompressed ==
    /\ obj = "coder"
    /\ obj' = "guard"
    /\ bulk' = CoderGuardNew(Self).bulk
    /\ state' = CoderGuardNew(Self).state
    /\ last' = Call("get_compressed", NoModel, 0, 0, TRUE, Self, <<>>)
    /\ last2' = Remember(last, "get_compressed", NoModel)
    /\ phase' = "other"
    /\ enc' = <<>>
    /\ UNCHANGED buf
    /\ UNCHANGED batchVars

\* the view returned by get_compressed goes out of scope; the record keeps
\* what the view showed
DropGuard ==
    /\ obj = "guard"
    /\ obj' = "coder"
    /\ bulk' = CoderGuardDrop(Self).bulk
    /\ state' = CoderGuardDrop(Self).state
    /\ last' = Call("drop_guard", NoModel, 0, 0, TRUE, Self, bulk)
    /\ last2' = Remember(last, "drop_guard", NoModel)
    /\ UNCHANGED <<buf, phase, enc>>
    /\ UNCHANGED batchVars

\* The caller drops what it holds
Drop ==
    /\ obj # "none" \/ last # NoCall
    /\ obj' = "none"
    /\ bulk' = <<>>
    /\ state' = 0
    /\ buf' = <<>>
    /\ last' = NoCall
    /\ last2' = NoCall
    /\ phase' = "other"
    /\ enc' = <<>>
    /\ symbols' = <<>>
    /\ jump_table' = <<>>
    /\ seekable_decoder' = NoCursor
    /\ batch' = NoBatch

---------------------------------------------------------------------------
(* Chunks, snapshots and seeking, after tests::seek: the encoder encodes     *)
(* symbols and takes pos_and_state() after each; a decoder over a cursor on   *)
(* the compressed words decodes symbols and seeks to the snapshots.           *)

\* The models of the symbols: neither has a symbol of probability zero.
BatchModels == {Model(2, <<1, 3>>), Model(2, <<2, 1, 1>>)}

\* Target states of seeks that are not snapshots: around the threshold
SeekStates == {0, Threshold - 1, Threshold, Pow2(S_BITS) - 1}

\* the items of a mixed chunk: a model and a symbol of its support
Pairs == UNION {{Pair(s, m) : s \in Symbols(m)} : m \in BatchModels}

IsIid(chunk) == \A j \in 1 .. Len(chunk) : chunk[j].model = chunk[1].model

SymbolsOf(chunk) == [j \in 1 .. Len(chunk) |-> chunk[j].sym]

ModelsOf(chunk) == [j \in 1 .. Len(chunk) |-> chunk[j].model]

RECURSIVE NumSymbols(_)
NumSymbols(cs) == IF cs = <<>> THEN 0 ELSE Len(Head(cs)) + NumSymbols(Tail(cs))

BatchCall(op, ok, pairs, syms, pre, at, target, i, after) ==
    [op |-> op, ok |-> ok, pairs |-> pairs, symbols |-> syms, pre |-> pre,
     at |-> at, target |-> target, i |-> i, after |-> after, err |-> NoError]

\* the same for a call that returned an error value
TryCall(op, ok, items, pre, err) ==
    [BatchCall(op, ok, items, <<>>, pre, NoCursor, NoCursor, 0, "other")
        EXCEPT !.err = err]

\* the direction of the cursor the caller holds
Dir == IF obj = "forward" THEN "forward" ELSE "backward"

\* the coder that decodes: the encoder itself, or the coder over the cursor
Decoding ==
    IF obj = "coder" THEN Self ELSE OverCursor(buf, seekable_decoder, Dir)

\* what a decode call leaves: the encoder has popped its last chunk, a
\* cursor has moved
Decoded(c) ==
    IF obj = "coder"
    THEN /\ bulk' = c.bulk
         /\ state' = c.state
         /\ symbols' = Front(symbols)
         /\ jump_table' = Front(jump_table)
         /\ UNCHANGED seekable_decoder
    ELSE /\ seekable_decoder' = AsCursor(buf, c, Dir)
         /\ UNCHANGED <<bulk, state, symbols, jump_table>>

\* whether the last call was a successful seek to snapshot i
Sought(i) == IF batch.op = "seek" /\ batch.ok /\ batch.i = i
             THEN "seek" ELSE "other"

\* encoder.encode_iid_symbols_reverse(&chunk, &model); symbols.push(chunk);
\* jump_table.push(encoder.pos_and_state())
EncodeIidChunk ==
    /\ obj = "coder"
    /\ \E m \in BatchModels : \E k \in 1 .. (MaxSyms - NumSymbols(symbols)) :
         \E syms \in [1 .. k -> Alphabet(m)] :
           \E r \in {EncodeIidSymbolsReverse(Self, syms, m)} :
             /\ Len(r.coder.bulk) <= MaxBulk
             /\ bulk' = r.coder.bulk
             /\ state' = r.coder.state
             /\ obj' = IF r.outcome = "ok" THEN "coder" ELSE "failed"
             /\ symbols' = IF r.outcome = "ok"
                          THEN Append(symbols, [j \in 1 .. k |-> Pair(syms[j], m)])
                          ELSE symbols
             /\ jump_table' = IF r.outcome = "ok"
                              THEN Append(jump_table, PosAndState(r.coder))
                              ELSE jump_table
             /\ batch' = BatchCall("encode_iid_symbols_reverse",
                                   r.outcome = "ok",
                                   [j \in 1 .. k |-> Pair(syms[j], m)], <<>>,
                                   Self, NoCursor, NoCursor, 0, "other")
    /\ UNCHANGED <<buf, seekable_decoder>>
    /\ UNCHANGED callVars

\* the same with encode_symbols_reverse and a model per symbol
EncodeChunk ==
    /\ obj = "coder"
    /\ \E k \in 2 .. (MaxSyms - NumSymbols(symbols)) :
         \E pairs \in [1 .. k -> Pairs] :
           /\ ~IsIid(pairs)
           /\ \E r \in {EncodeSymbolsReverse(Self, pairs)} :
                /\ Len(r.coder.bulk) <= MaxBulk
                /\ bulk' = r.coder.bulk
                /\ state' = r.coder.state
                /\ obj' = IF r.outcome = "ok" THEN "coder" ELSE "failed"
                /\ symbols' = IF r.outcome = "ok"
                             THEN Append(symbols, pairs) ELSE symbols
                /\ jump_table' = IF r.outcome = "ok"
                                 THEN Append(jump_table, PosAndState(r.coder))
                                 ELSE jump_table
                /\ batch' = BatchCall("encode_symbols_reverse",
                                      r.outcome = "ok", pairs, <<>>,
                                      Self, NoCursor, NoCursor, 0, "other")
    /\ UNCHANGED <<buf, seekable_decoder>>
    /\ UNCHANGED callVars

\* encoder.seekable_decoder(): the cursor borrows bulk
MakeSeekableDecoder ==
    /\ obj = "coder"
    /\ obj' = "decoder"
    /\ buf' = bulk
    /\ seekable_decoder' = SeekableDecoder(Self)
    /\ batch' = BatchCall("seekable_decoder", TRUE, <<>>, <<>>, Self,
                          NoCursor, NoCursor, 0, "other")
    /\ UNCHANGED <<bulk, state, symbols, jump_table>>
    /\ UNCHANGED callVars

\* compressed = encoder.into_compressed(); compressed.reverse();
\* *pos = compressed.len() - *pos for the jump table;
\* from_compressed(ReadCursorForward::new(compressed))
ReverseCompressed ==
    /\ obj \in {"coder", "decoder"}
    /\ \E compressed \in {Reverse(IntoCompressed(Self))} :
         /\ obj' = "forward"
         /\ buf' = compressed
         /\ jump_table' =
              [j \in 1 .. Len(jump_table) |->
                 Cursor(Len(compressed) - jump_table[j].pos,
                        jump_table[j].state)]
         /\ seekable_decoder' = FromReversedCompressed(compressed).cur
         /\ batch' = BatchCall("from_compressed",
                               FromReversedCompressed(compressed).ok,
                               <<>>, <<>>, Self, NoCursor, NoCursor, 0, "other")
    /\ bulk' = <<>>
    /\ state' = 0
    /\ UNCHANGED symbols
    /\ UNCHANGED callVars

\* decode_iid_symbols(len of chunk i, its model), collected: the encoder
\* pops its last chunk, a cursor decodes chunk i from snapshot i
DecodeIidChunk ==
    /\ obj \in {"coder", "decoder", "forward"}
    /\ \E i \in 1 .. Len(symbols) :
         /\ IsIid(symbols[i])
         /\ obj = "coder" => i = Len(symbols)
         /\ obj # "coder" => seekable_decoder = jump_table[i]
         /\ \E r \in {DecodeIidSymbols(Decoding, Len(symbols[i]),
                                       symbols[i][1].model)} :
              /\ Decoded(r.coder)
              /\ batch' = BatchCall("decode_iid_symbols", TRUE, symbols[i],
                                    r.symbols, Decoding, seekable_decoder,
                                    NoCursor, i, Sought(i))
    /\ UNCHANGED <<obj, buf>>
    /\ UNCHANGED callVars

\* decode_symbols(the models of chunk i), collected, likewise
DecodeChunk ==
    /\ obj \in {"coder", "decoder", "forward"}
    /\ \E i \in 1 .. Len(symbols) :
         /\ ~IsIid(symbols[i])
         /\ obj = "coder" => i = Len(symbols)
         /\ obj # "coder" => seekable_decoder = jump_table[i]
         /\ \E r \in {DecodeSymbols(Decoding, ModelsOf(symbols[i]))} :
              /\ Decoded(r.coder)
              /\ batch' = BatchCall("decode_symbols", TRUE, symbols[i],
                                    r.symbols, Decoding, seekable_decoder,
                                    NoCursor, i, Sought(i))
    /\ UNCHANGED <<obj, buf>>
    /\ UNCHANGED callVars

\* seekable_decoder.seek(jump_table[i])
SeekCall ==
    /\ obj \in {"decoder", "forward"}
    /\ \E i \in 1 .. Len(jump_table) :
         \E r \in {Seek(buf, seekable_decoder, jump_table[i], Dir)} :
           /\ seekable_decoder' = r.cur
           /\ batch' = BatchCall("seek", r.ok, symbols[i], <<>>, NewCoder,
                                 seekable_decoder, jump_table[i], i, "other")
    /\ UNCHANGED <<obj, bulk, state, buf, symbols, jump_table>>
    /\ UNCHANGED callVars

\* AnsCoder::from_compressed_slice(&buf)
FromCompressedSlice ==
    /\ obj = "buf"
    /\ \E r \in {FromCompressed(CursorLeft(buf, CursorNew(buf, "backward"),
                                           "backward"))} :
         /\ obj' = IF r.ok THEN "decoder" ELSE "buf"
         /\ seekable_decoder' = AsCursor(buf, r.coder, "backward")
         /\ batch' = BatchCall("from_compressed_slice", r.ok, <<>>, <<>>,
                               NewCoder, NoCursor, NoCursor, 0, "other")
    /\ UNCHANGED <<bulk, state, buf, symbols, jump_table>>
    /\ UNCHANGED callVars

\* AnsCoder::from_reversed_compressed(buf)
FromReversedCompressedCall ==
    /\ obj = "buf"
    /\ \E r \in {FromReversedCompressed(buf)} :
         /\ obj' = IF r.ok THEN "forward" ELSE "buf"
         /\ seekable_decoder' = r.cur
         /\ batch' = BatchCall("from_reversed_compressed", r.ok, <<>>, <<>>,
                               NewCoder, NoCursor, NoCursor, 0, "other")
    /\ UNCHANGED <<bulk, state, buf, symbols, jump_table>>
    /\ UNCHANGED callVars

\* seek((pos, s)) with any target
SeekAnywhere ==
    /\ obj \in {"decoder", "forward"}
    /\ \E pos \in 0 .. (Len(buf) + 1), s \in SeekStates :
         \E r \in {Seek(buf, seekable_decoder, Cursor(pos, s), Dir)} :
           /\ seekable_decoder' = r.cur
           /\ batch' = BatchCall("seek", r.ok, <<>>, <<>>, NewCoder,
                                 seekable_decoder, Cursor(pos, s), 0, "other")
    /\ UNCHANGED <<obj, bulk, state, buf, symbols, jump_table>>
    /\ UNCHANGED callVars

\* The items a fallible iterator yields: a symbol of the model's alphabet
\* with its model, or one of two errors
TryItems ==
    UNION {{TryItem(0, Pair(s, m)) : s \in Alphabet(m)} : m \in BatchModels}
      \cup {TryItem(e, Pair(0, NoModel)) : e \in {1, 2}}

PairsOf(items) == [j \in 1 .. Len(items) |-> items[j].pair]

\* encoder.try_encode_symbols_reverse(items)
TryEncodeChunk ==
    /\ obj = "coder"
    /\ \E k \in 1 .. (MaxSyms - NumSymbols(symbols)) :
         \E items \in [1 .. k -> TryItems] :
           \E r \in {TryEncodeSymbolsReverse(Self, items)} :
             /\ Len(r.coder.bulk) <= MaxBulk
             /\ bulk' = r.coder.bulk
             /\ state' = r.coder.state
             /\ obj' = IF r.outcome = "ok" THEN "coder" ELSE "failed"
             /\ symbols' = IF r.outcome = "ok"
                           THEN Append(symbols, PairsOf(items)) ELSE symbols
             /\ jump_table' = IF r.outcome = "ok"
                              THEN Append(jump_table, PosAndState(r.coder))
                              ELSE jump_table
             /\ batch' = TryCall("try_encode_symbols_reverse",
                                 r.outcome = "ok", items, Self, r.err)
    /\ UNCHANGED <<buf, seekable_decoder>>
    /\ UNCHANGED callVars

\* seekable_decoder.decode_symbol(m)
DecodeOnCursor ==
    /\ obj \in {"decoder", "forward"}
    /\ \E m \in BatchModels :
         \E r \in {DecodeSymbol(Decoding, m)} :
           /\ seekable_decoder' = AsCursor(buf, r.coder, Dir)
           /\ batch' = BatchCall("decode_symbol", TRUE, <<>>, <<r.symbol>>,
                                 Decoding, seekable_decoder, NoCursor, 0,
                                 "other")
    /\ UNCHANGED <<obj, bulk, state, buf, symbols, jump_table>>
    /\ UNCHANGED callVars

\* seekable_decoder.seek(seekable_decoder.pos_and_state())
SeekPosAndState ==
    /\ obj \in {"decoder", "forward"}
    /\ \E r \in {Seek(buf, seekable_decoder, AsCursor(buf, Decoding, Dir),
                       Dir)} :
         /\ seekable_decoder' = r.cur
         /\ batch' = BatchCall("seek", r.ok, <<>>, <<>>, NewCoder,
                               seekable_decoder, AsCursor(buf, Decoding, Dir),
                               0, "other")
    /\ UNCHANGED <<obj, bulk, state, buf, symbols, jump_table>>
    /\ UNCHANGED callVars

\* A caller that codes: constructs, encodes, decodes, exports, re-imports
Next ==
    \/ New
    \/ RawParts
    \/ Buffer
    \/ ImportCompressed
    \/ ImportBinary
    \/ Encode
    \/ Decode
    \/ ClearCoder
    \/ ExportCompressed
    \/ ExportBinary
    \/ Drop

Spec == Init /\ [][Next]_vars

\* A caller that inspects: every coder that satisfies the invariant of
\* `state` is constructed by from_raw_parts, then queried, viewed, taken
\* apart or exported.
QueryNext ==
    \/ New
    \/ RawParts
    \/ Buffer
    \/ ImportCompressed
    \/ ImportBinary
    \/ ClearCoder
    \/ NumWordsCall
    \/ NumBitsCall
    \/ NumValidBitsCall
    \/ IterCompressedCall
    \/ GetCompressed
    \/ DropGuard
    \/ IntoRawPartsCall
    \/ ExportCompressed
    \/ Drop

QuerySpec == Init /\ [][QueryNext]_vars

\* A caller that codes in chunks and decodes them through cursors
BatchNext ==
    \/ New
    \/ EncodeIidChunk
    \/ EncodeChunk
    \/ MakeSeekableDecoder
    \/ ReverseCompressed
    \/ DecodeIidChunk
    \/ DecodeChunk
    \/ SeekCall
    \/ Drop

BatchSpec == Init /\ [][BatchNext]_vars

\* A caller that opens cursors on buffers and seeks anywhere
SeekNext ==
    \/ Buffer
    \/ FromCompressedSlice
    \/ FromReversedCompressedCall
    \/ SeekAnywhere
    \/ Drop

SeekSpec == Init /\ [][SeekNext]_vars

\* A caller that encodes from fallible iterators
TryNext ==
    \/ New
    \/ TryEncodeChunk
    \/ Drop

TrySpec == Init /\ [][TryNext]_vars

\* A caller that opens a cursor on a buffer, decodes, and seeks to where
\* the decoder is
SnapshotNext ==
    \/ Buffer
    \/ FromCompressedSlice
    \/ FromReversedCompressedCall
    \/ DecodeOnCursor
    \/ SeekPosAndState
    \/ Drop

SnapshotSpec == Init /\ [][SnapshotNext]_vars

---------------------------------------------------------------------------
(* Properties *)

Coding(call) == call.op \in {"encode_symbol", "decode_symbol"}

\* C1: from the empty coder, after encoding a sequence of (symbol, model)
\* pairs, exporting with into_compressed and re-importing with
\* from_compressed, every decode_symbol with the models in reverse order
\* returns the symbol encoded with it (last encoded first), and once all of
\* them are decoded is_empty() holds.
C1_RoundTripDecodes ==
    /\ (phase = "decoding" /\ last.op = "decode_symbol") => last.sym = last.expect
    /\ (phase = "decoding" /\ enc = <<>>) => (obj = "coder" /\ IsEmpty(Self))

\* three symbols went through the scenario, a word was flushed on the way,
\* and the last of them has just been decoded
C1_Witness ==
    /\ phase = "decoding"
    /\ enc = <<>>
    /\ last.op = "decode_symbol"
    /\ last2.op = "decode_symbol"
    /\ last2.sym # last.sym
    /\ last2.model # last.model

\* C2: on a coder that satisfies the state invariant, encode_symbol(s, m)
\* followed by decode_symbol(m) returns s and leaves bulk and state as they
\* were before the encode, also when the encode flushed a word.
C2_EncodeThenDecode ==
    ( /\ last.op = "decode_symbol"
      /\ last2.op = "encode_symbol"
      /\ last2.ok
      /\ last.model = last2.model
      /\ WellFormed(last2.pre) )
    => (last.sym = last2.sym /\ Self = last2.pre)

\* the encode flushed a word onto a non-empty bulk, the decode took it back
C2_Witness ==
    /\ last.op = "decode_symbol"
    /\ last2.op = "encode_symbol"
    /\ last2.ok
    /\ last.model = last2.model
    /\ last2.pre.bulk # <<>>
    /\ Len(last.pre.bulk) > Len(last2.pre.bulk)

\* C3: on a coder that satisfies the state invariant, decode_symbol(m)
\* returning s followed by encode_symbol(s, m) leaves bulk and state as they
\* were before the decode: a refilled word is flushed back, and no word is
\* flushed when none was refilled.
C3_DecodeThenEncode ==
    ( /\ last.op = "encode_symbol"
      /\ last.ok
      /\ last2.op = "decode_symbol"
      /\ last.model = last2.model
      /\ last.sym = last2.sym
      /\ WellFormed(last2.pre) )
    => Self = last2.pre

\* the decode refilled the state from bulk, the encode flushed the word back
C3_Witness ==
    /\ last.op = "encode_symbol"
    /\ last.ok
    /\ last2.op = "decode_symbol"
    /\ last.model = last2.model
    /\ last.sym = last2.sym
    /\ Len(last.pre.bulk) < Len(last2.pre.bulk)
    /\ Len(bulk) > Len(last.pre.bulk)

\* C4: in every coder reachable from new, from_compressed, from_binary or a
\* successful from_raw_parts by encode_symbol, decode_symbol and clear,
\* whenever bulk is non-empty the state is at least 2^(bits(S) - bits(W)).
C4_StateInvariant == (obj = "coder" /\ bulk # <<>>) => state >= Threshold

\* an encode has just flushed a word, and a decode has just refilled one with
\* words still left on bulk
C4_Witness ==
    /\ obj = "coder"
    /\ bulk # <<>>
    /\ \/ last.op = "encode_symbol" /\ Len(bulk) > Len(last.pre.bulk)
       \/ last.op = "decode_symbol" /\ Len(bulk) < Len(last.pre.bulk)

\* C5 as stated: after any successful encode_symbol or decode_symbol the coder
\* is empty (state = 0) or its state is at least 2^(S_BITS - W_BITS).
C5_EmptyOrFull_Original ==
    (obj = "coder" /\ Coding(last) /\ last.ok)
    => (IsEmpty(Self) \/ state >= Threshold)

\* C5 as amended: after any successful encode_symbol or decode_symbol, bulk
\* is empty or the state is at least 2^(S_BITS - W_BITS); with bulk empty the
\* state may be any value, zero or not.
C5_BulkEmptyOrFull ==
    (obj = "coder" /\ Coding(last) /\ last.ok)
    => (Len(bulk) = 0 \/ state >= Threshold)

\* an encode left a state that is neither zero nor above the threshold
C5_Witness ==
    /\ obj = "coder"
    /\ last.op = "encode_symbol"
    /\ last.ok
    /\ bulk = <<>>
    /\ state # 0
    /\ state < Threshold

\* C6: for a coder with state # 0, the buffer returned by into_compressed is
\* non-empty and its last word is nonzero.
C6_ExportEndsNonzero ==
    (last.op = "into_compressed" /\ ~IsEmpty(last.pre))
    => (obj = "buf" /\ buf # <<>> /\ LastOf(buf) # 0)

\* exported a full state whose low word is zero, on top of a non-empty bulk
C6_Witness ==
    /\ last.op = "into_compressed"
    /\ last.pre.state >= Threshold
    /\ AsWord(last.pre.state) = 0
    /\ last.pre.bulk # <<>>

\* C7: for a coder c with bulk empty or state >= 2^(bits(S) - bits(W)),
\* from_compressed(c.into_compressed()) succeeds and yields the bulk and the
\* state of c.
C7_WireRoundTrip ==
    ( /\ last.op = "from_compressed"
      /\ last2.op = "into_compressed"
      /\ WellFormed(last2.pre) )
    => (last.ok /\ obj = "coder" /\ Self = last2.pre)

\* a coder with words on bulk went out and came back
C7_Witness ==
    /\ last.op = "from_compressed"
    /\ last2.op = "into_compressed"
    /\ last2.pre.bulk # <<>>
    /\ last2.pre.state >= Threshold
    /\ obj = "coder"

\* C8: for every word buffer b, also the empty one and those ending in zero
\* words, from_binary(b).into_binary() returns Ok(b).
C8_BinaryRoundTrip ==
    (last.op = "into_binary" /\ last2.op = "from_binary")
    => (last.ok /\ obj = "buf" /\ buf = last2.prebuf)

\* C9: from_compressed(v) returns Err(v), handing back the buffer that was
\* passed in, if and only if v is non-empty and its last word is 0; for every
\* other v it returns Ok.
C9_ImportErrHandsBack ==
    last.op = "from_compressed"
    => /\ ~last.ok <=> (last.prebuf # <<>> /\ LastOf(last.prebuf) = 0)
       /\ ~last.ok => (obj = "buf" /\ buf = last.prebuf)

\* C10: new() is empty, into_compressed of an empty coder returns an empty
\* buffer, and from_compressed of an empty buffer succeeds and yields an empty
\* coder.
C10_EmptyExport ==
    /\ last.op = "new" => (obj = "coder" /\ IsEmpty(Self) /\ bulk = <<>>)
    /\ (last.op = "into_compressed" /\ IsEmpty(last.pre)) => buf = <<>>
    /\ (last.op = "from_compressed" /\ last.prebuf = <<>>)
       => (last.ok /\ obj = "coder" /\ IsEmpty(Self) /\ bulk = <<>>)

\* new(), into_compressed(), from_compressed() in a row
C10_Witness ==
    /\ last.op = "from_compressed"
    /\ last2.op = "into_compressed"
    /\ phase = "decoding"
    /\ enc = <<>>
    /\ last.prebuf = <<>>

\* C11: into_binary returns Ok if and only if state # 0 and
\* S_BITS - 1 - clz(state) is a multiple of W_BITS; the empty coder and a coder
\* whose highest set bit is not at a word boundary get Err.
C11_IntoBinaryOkIff ==
    last.op = "into_binary"
    => (last.ok <=> ( /\ last.pre.state # 0
                      /\ (BitLen(last.pre.state) - 1) % W_BITS = 0 ))

\* into_binary refused a coder with words on bulk whose highest set bit is
\* not at a word boundary
C11_Witness ==
    /\ last.op = "into_binary"
    /\ ~last.ok
    /\ last.pre.bulk # <<>>
    /\ last.pre.state # 0

\* C12: into_binary returns Ok(x) exactly when the buffer into_compressed
\* would return for the same coder ends in the word 1, and x is that buffer
\* with its last word removed.
C12_IntoBinaryIsPoppedExport ==
    last.op = "into_binary"
    => /\ last.ok <=> ( /\ IntoCompressed(last.pre) # <<>>
                        /\ LastOf(IntoCompressed(last.pre)) = 1 )
       /\ last.ok => (obj = "buf" /\ buf = Front(IntoCompressed(last.pre)))

\* C13: from_binary(data) yields the bulk and the state that from_compressed
\* yields for data with one word equal to 1 appended, for every buffer data,
\* also those with fewer than ceil(bits(S) / bits(W)) - 1 words.
C13_FromBinaryIsSentinelImport ==
    last.op = "from_binary"
    => /\ obj = "coder"
       /\ FromCompressed(Append(last.prebuf, 1)).ok
       /\ Self = FromCompressed(Append(last.prebuf, 1)).coder

\* from_binary of a buffer long enough to leave words on bulk
C13_Witness ==
    /\ last.op = "from_binary"
    /\ Len(last.prebuf) > MaxChunks - 1
    /\ bulk # <<>>
    /\ LastOf(last.prebuf) = 0

\* C14: from_binary(data).is_empty() is false for every buffer data, the
\* empty one included, whereas from_compressed of the empty buffer is empty.
C14_BinaryNeverEmpty ==
    /\ last.op = "from_binary" => (obj = "coder" /\ ~IsEmpty(Self))
    /\ (last.op = "from_compressed" /\ last.prebuf = <<>>)
       => (obj = "coder" /\ IsEmpty(Self))

\* from_binary of the empty buffer
C14_Witness ==
    /\ last.op = "from_binary"
    /\ last.prebuf = <<>>
    /\ obj = "coder"
    /\ bulk = <<>>

\* C15: for every reachable coder, num_words() is the length of the buffer
\* into_compressed() returns for that coder, that is the length of bulk plus
\* ceil((S_BITS - clz(state)) / W_BITS), which is 0 for state = 0.
C15_NumWordsIsExportLength ==
    /\ last.op = "num_words"
       => /\ last.sym = Len(IntoCompressed(last.pre))
          /\ last.sym = Len(last.pre.bulk)
                         + (BitLen(last.pre.state) + W_BITS - 1) \div W_BITS
    /\ (last.op = "into_compressed" /\ last2.op = "num_words")
       => Len(buf) = last2.sym

\* num_words() of a coder with an empty bulk and a state of a single chunk,
\* then into_compressed()
C15_Witness ==
    /\ last.op = "into_compressed"
    /\ last2.op = "num_words"
    /\ last2.sym = 1
    /\ last.pre.state # 0

\* C16: the words iter_compressed() yields, which leaves the coder as it is,
\* are the contents of the view get_compressed() returns at the same moment.
C16_IterIsView ==
    /\ last.op = "iter_compressed" => (obj = "coder" /\ Self = last.pre)
    /\ (obj = "guard" /\ last2.op = "iter_compressed") => bulk = last2.prebuf

\* iter_compressed() then get_compressed() on a coder with words on bulk and
\* a state whose two chunks differ
C16_Witness ==
    /\ obj = "guard"
    /\ last2.op = "iter_compressed"
    /\ last.pre.bulk # <<>>
    /\ AsWord(state) # Shr(state, W_BITS)

\* C17: while the view returned by get_compressed() is alive, bulk is the
\* buffer into_compressed() would return for the coder as it was before the
\* call.
C17_ViewIsExport ==
    obj = "guard" => (last.op = "get_compressed" /\ bulk = IntoCompressed(last.pre))

\* a view of a coder with words on bulk and a full state
C17_Witness ==
    /\ obj = "guard"
    /\ last.pre.bulk # <<>>
    /\ Len(bulk) = Len(last.pre.bulk) + MaxChunks

\* C18: after the view is dropped bulk and state are what they were before
\* get_compressed was called, and a second get_compressed right after shows
\* the same data as the first.
C18_ViewLeavesNoTrace ==
    /\ last.op = "drop_guard"
       => (obj = "coder" /\ last2.op = "get_compressed" /\ Self = last2.pre)
    /\ (obj = "guard" /\ last2.op = "drop_guard") => bulk = last2.prebuf

\* a second view, taken right after the first was dropped, of a coder whose
\* state has a single chunk
C18_Witness ==
    /\ obj = "guard"
    /\ last2.op = "drop_guard"
    /\ state # 0
    /\ state < Threshold

\* C19: encode_symbol with a model that reports probability 0 for the symbol
\* returns Err(ImpossibleSymbol), writes no word to bulk and leaves the state
\* as it was before the call.
C19_ZeroProbabilityRefused ==
    ( /\ last.op = "encode_symbol"
      /\ LeftCumulativeAndProbability(last.model, last.sym).ok
      /\ LeftCumulativeAndProbability(last.model, last.sym).p = 0 )
    => (obj = "coder" /\ ~last.ok /\ Self = last.pre)

\* C20: when left_cumulative_and_probability returns an error for the symbol
\* (it is outside the support), encode_symbol returns Err(ImpossibleSymbol)
\* and leaves bulk and state unchanged.
C20_OutsideSupportRefused ==
    ( /\ last.op = "encode_symbol"
      /\ ~LeftCumulativeAndProbability(last.model, last.sym).ok )
    => (obj = "coder" /\ ~last.ok /\ Self = last.pre)

\* a symbol outside the support was refused by a coder with words on bulk
C20_Witness ==
    /\ last.op = "encode_symbol"
    /\ last.sym \notin Symbols(last.model)
    /\ ~last.ok
    /\ obj = "coder"
    /\ bulk # <<>>

Decodes(call) == call.op \in {"decode_iid_symbols", "decode_symbols"}

Encodes(call) ==
    call.op \in {"encode_iid_symbols_reverse", "encode_symbols_reverse"}

\* the symbol is outside the support of its model
Impossible(pair) ==
    \/ pair.sym \notin 1 .. Len(pair.model.probs)
    \/ pair.model.probs[pair.sym] = 0

\* the index of the first impossible pair met from the end; 0 if none
FirstImpossibleFromEnd(pairs) ==
    Max(0, CHOOSE k \in 0 .. Len(pairs) :
             /\ k > 0 => Impossible(pairs[k])
             /\ \A j \in (k + 1) .. Len(pairs) : ~Impossible(pairs[j]))

\* the coder after encoding pairs[n], pairs[n - 1], ..., pairs[k + 1] one
\* encode_symbol call at a time
RECURSIVE EncodedDownTo(_, _, _)
EncodedDownTo(coder, pairs, k) ==
    IF Len(pairs) <= k THEN coder
    ELSE EncodedDownTo(EncodeSymbol(coder, LastOf(pairs).model,
                                    LastOf(pairs).sym).coder,
                       Front(pairs), k)

\* the snapshot below snapshot i: the one before it in the jump table, or
\* that of the empty encoder (moved to the end of buf for a forward cursor)
SnapshotBelow(i) ==
    IF i > 1 THEN jump_table[i - 1]
    ELSE Cursor(IF obj = "forward" THEN Len(buf) ELSE 0, NewCoder.state)

\* C21: a chunk encoded with encode_iid_symbols_reverse (or with
\* encode_symbols_reverse) and then decoded from the same coder with
\* decode_iid_symbols(n, model) (or decode_symbols with the models in
\* forward order) comes back in its original, forward order.
C21_ReverseEncodeForwardDecode ==
    (obj = "coder" /\ Decodes(batch))
        => batch.symbols = SymbolsOf(batch.pairs)

C21_Witness ==
    /\ obj = "coder"
    /\ batch.op = "decode_iid_symbols"
    /\ Len(batch.pairs) = 3
    /\ batch.pairs[1].sym # batch.pairs[3].sym
    /\ batch.pre.bulk # <<>>
    /\ batch.symbols = SymbolsOf(batch.pairs)

\* C22: a batch encode that meets an impossible symbol is not rolled back:
\* it returns the error exactly when some symbol is impossible, and the
\* coder is then the one reached by encoding, from the last symbol down,
\* the symbols after the first impossible one met from the end.
C22_BatchNotRolledBack ==
    Encodes(batch) =>
        /\ batch.ok <=> FirstImpossibleFromEnd(batch.pairs) = 0
        /\ obj = "failed" <=> ~batch.ok
        /\ Self = EncodedDownTo(batch.pre, batch.pairs,
                                FirstImpossibleFromEnd(batch.pairs))

C22_Witness ==
    /\ obj = "failed"
    /\ batch.op = "encode_iid_symbols_reverse"
    /\ FirstImpossibleFromEnd(batch.pairs) = 2
    /\ Len(batch.pairs) = 3
    /\ Self # batch.pre
    /\ Self = EncodeSymbol(batch.pre, batch.pairs[3].model,
                           batch.pairs[3].sym).coder

\* C23: on a seekable decoder over the encoder's words, seek to any
\* snapshot of the jump table succeeds from any position, and decoding the
\* length of chunk i after the seek to snapshot i returns chunk i.
C23_SeekToSnapshot ==
    obj = "decoder" =>
        /\ batch.op = "seek" => batch.ok
        /\ (Decodes(batch) /\ batch.after = "seek")
               => batch.symbols = SymbolsOf(batch.pairs)

\* C24: the seekable decoder made from an encoder starts at the encoder's
\* (pos, state); decoding a chunk from its snapshot leaves the decoder at
\* the snapshot below; below the first chunk that is the snapshot of the
\* empty encoder, and the decoder is empty.
C24_DecoderRetracesSnapshots ==
    obj = "decoder" =>
        /\ batch.op = "seekable_decoder"
               => seekable_decoder = PosAndState(Self)
        /\ (Decodes(batch) /\ batch.at = jump_table[batch.i])
               => /\ seekable_decoder = SnapshotBelow(batch.i)
                  /\ batch.i = 1 =>
                        /\ seekable_decoder = PosAndState(NewCoder)
                        /\ IsEmpty(Decoding)

C24_Witness ==
    /\ obj = "decoder"
    /\ Decodes(batch)
    /\ batch.i = 1
    /\ batch.at = jump_table[1]
    /\ batch.at.pos > 0
    /\ seekable_decoder = PosAndState(NewCoder)
    /\ IsEmpty(Decoding)

\* C25: a forward cursor over the reversed compressed words decodes the
\* same symbols, passes through the snapshots with pos mapped to
\* len - pos, and accepts seeks to the mapped snapshots.
C25_ForwardOverReversed ==
    obj = "forward" =>
        /\ batch.op = "from_compressed" =>
              /\ batch.ok
              /\ seekable_decoder =
                    Cursor(Len(buf) - Len(batch.pre.bulk), batch.pre.state)
        /\ (Decodes(batch) /\ batch.at = jump_table[batch.i])
               => /\ batch.symbols = SymbolsOf(batch.pairs)
                  /\ seekable_decoder = SnapshotBelow(batch.i)
        /\ batch.op = "seek" => batch.ok

C27_DecodePastEnd ==
    (last.op = "decode_symbol" /\ last.pre = NewCoder)
    => /\ last.ok
       /\ LeftCumulative(last.model, last.sym) = 0
       /\ last.model.probs[last.sym] > 0
       /\ obj = "coder"
       /\ Self = NewCoder

\* two decodes in a row off the empty coder
C27_Witness ==
    /\ last.op = "decode_symbol"
    /\ last.pre = NewCoder
    /\ last2.op = "decode_symbol"
    /\ last2.pre = NewCoder

\* C28: on the empty coder, encoding a symbol of probability 2^PRECISION
\* (left cumulative 0) and then decoding with the same model returns that
\* symbol and leaves the coder empty.
C28_CertainSymbolOnEmpty ==
    ( /\ last.op = "decode_symbol"
      /\ last2.op = "encode_symbol"
      /\ last2.pre = NewCoder
      /\ last.model = last2.model
      /\ last2.sym \in Symbols(last2.model)
      /\ last2.model.probs[last2.sym] = Pow2(last2.model.prec) )
    => (last2.ok /\ last.sym = last2.sym /\ Self = NewCoder)

\* the certain symbol was encoded onto the empty coder and decoded again
C28_Witness ==
    /\ last.op = "decode_symbol"
    /\ last2.op = "encode_symbol"
    /\ last2.pre = NewCoder
    /\ last2.ok
    /\ last.model = last2.model
    /\ Len(last2.model.probs) = 1

\* C29: from_raw_parts(bulk, state) returns Ok exactly when bulk is empty or
\* state >= 2^(bits(S) - bits(W)); on Ok the coder holds the given bulk and
\* state, and into_raw_parts returns them unchanged.
C29_RawPartsRoundTrip ==
    /\ last.op = "from_raw_parts"
       => /\ last.ok <=> (last.prebuf = <<>> \/ last.sym >= Pow2(S_BITS - W_BITS))
          /\ last.ok => (obj = "coder" /\ bulk = last.prebuf /\ state = last.sym)
          /\ ~last.ok => obj = "none"
    /\ (last.op = "into_raw_parts" /\ last2.op = "from_raw_parts")
       => (obj = "buf" /\ buf = last2.prebuf /\ last.sym = last2.sym)

\* a coder made of a non-empty bulk and a state exactly at the threshold
\* was taken apart again
C29_Witness ==
    /\ last.op = "into_raw_parts"
    /\ last2.op = "from_raw_parts"
    /\ buf # <<>>
    /\ last.sym = Threshold

\* C30: in every reachable coder num_valid_bits() <= num_bits() and
\* num_bits() - num_valid_bits() <= bits(W); for the empty coder both are 0.
C30_ValidBitsWithinAWord ==
    /\ (last.op = "num_valid_bits" /\ last2.op = "num_bits")
       => /\ last.sym <= last2.sym
          /\ last2.sym - last.sym <= W_BITS
    /\ (last.op = "num_valid_bits" /\ IsEmpty(last.pre)) => last.sym = 0
    /\ (last.op = "num_bits" /\ IsEmpty(last.pre)) => last.sym = 0

\* num_bits() then num_valid_bits() of a coder with words on bulk whose two
\* counts are a whole word apart
C30_Witness ==
    /\ last.op = "num_valid_bits"
    /\ last2.op = "num_bits"
    /\ last.pre.bulk # <<>>
    /\ last2.sym - last.sym = W_BITS

\* the model's answer to the symbol of an encode call
Answer(call) == LeftCumulativeAndProbability(call.model, call.sym)

\* the state the quotient is taken of: the state before the call, shifted
\* right by a word if the call wrote one
StateAfterFlush(call) ==
    IF bulk = call.pre.bulk THEN call.pre.state
    ELSE Shr(call.pre.state, W_BITS)

\* what an encode of (c, p) makes of a state in unbounded arithmetic
Unbounded(s, c, p, P) == (s \div p) * Pow2(P) + c + (s % p)

\* C31: in a successful encode_symbol on a coder that satisfies the invariant
\* of `state`, the quotient state / probability taken after the conditional
\* flush is below 2^(S_BITS - PRECISION), and the new state is the unbounded
\* value quotient * 2^PRECISION + left_cumulative + remainder: no bit is lost.
C31_EncodeLosesNoBits ==
    (last.op = "encode_symbol" /\ last.ok /\ WellFormed(last.pre)) =>
        /\ StateAfterFlush(last) \div Answer(last).p
              < Pow2(S_BITS - last.model.prec)
        /\ state = Unbounded(StateAfterFlush(last), Answer(last).c,
                             Answer(last).p, last.model.prec)

\* an encode that flushed and then filled the top bit of the state
C31_Witness ==
    /\ last.op = "encode_symbol"
    /\ last.ok
    /\ WellFormed(last.pre)
    /\ bulk # last.pre.bulk
    /\ state >= Pow2(S_BITS - 1)

\* C32: a successful encode_symbol writes a word exactly when encoding onto
\* the state as it was would give a value that does not fit in S_BITS bits.
C32_FlushIffOverflow ==
    (last.op = "encode_symbol" /\ last.ok) =>
        (bulk # last.pre.bulk
            <=> Unbounded(last.pre.state, Answer(last).c, Answer(last).p,
                          last.model.prec) >= Pow2(S_BITS))

\* an encode that did not flush although the state was above the threshold,
\* and one step short of overflowing
C32_Witness ==
    /\ last.op = "encode_symbol"
    /\ last.ok
    /\ bulk = last.pre.bulk
    /\ last.pre.state >= Threshold
    /\ state >= Pow2(S_BITS - 1)

\* C33: an encode_symbol call appends at most one word to bulk and a
\* decode_symbol call takes at most one word off it, and the coder it
\* leaves satisfies the invariant of `state` again, for every PRECISION
\* from 1 to bits(W).
C33_OneWordPerSymbol ==
    /\ (last.op = "encode_symbol" /\ last.ok /\ WellFormed(last.pre)) =>
          /\ bulk = last.pre.bulk
             \/ (bulk # <<>> /\ Front(bulk) = last.pre.bulk)
          /\ WellFormed(Self)
    /\ (last.op = "decode_symbol" /\ WellFormed(last.pre)) =>
          /\ bulk = last.pre.bulk
             \/ (last.pre.bulk # <<>> /\ bulk = Front(last.pre.bulk))
          /\ WellFormed(Self)

\* a decode with PRECISION = bits(W) that read a word, right after an
\* encode that wrote one
C33_Witness ==
    /\ last.op = "decode_symbol"
    /\ last.model.prec = W_BITS
    /\ last.pre.bulk # <<>>
    /\ bulk = Front(last.pre.bulk)
    /\ last2.op = "encode_symbol"
    /\ Front(last.pre.bulk) = last2.pre.bulk
    /\ WellFormed(last2.pre)

\* C34: a successful encode_symbol on a coder that satisfies the invariant
\* of `state` raises num_valid_bits() by at least 0 and at most PRECISION.
C34_EncodeFillsAtMostPrecision ==
    (last.op = "encode_symbol" /\ last.ok /\ WellFormed(last.pre)) =>
        /\ NumValidBits(Self) >= NumValidBits(last.pre)
        /\ NumValidBits(Self) - NumValidBits(last.pre) <= last.model.prec

\* an encode that wrote a word and raised the level by the whole PRECISION
C34_Witness ==
    /\ last.op = "encode_symbol"
    /\ last.ok
    /\ WellFormed(last.pre)
    /\ bulk # last.pre.bulk
    /\ NumValidBits(Self) - NumValidBits(last.pre) = last.model.prec

\* C35: decode_symbol on a coder that satisfies the invariant of `state`
\* never raises num_valid_bits().
C35_DecodeNeverFills ==
    (last.op = "decode_symbol" /\ WellFormed(last.pre)) =>
        NumValidBits(Self) <= NumValidBits(last.pre)

\* a decode that read a word and lowered the level
C35_Witness ==
    /\ last.op = "decode_symbol"
    /\ WellFormed(last.pre)
    /\ bulk # last.pre.bulk
    /\ NumValidBits(Self) < NumValidBits(last.pre)

\* the index of the first item met from the end that is an error or whose
\* symbol is impossible; 0 if there is none
FirstStopFromEnd(items) ==
    Max(0, CHOOSE k \in 0 .. Len(items) :
             /\ k > 0 => (items[k].err # 0 \/ Impossible(items[k].pair))
             /\ \A j \in (k + 1) .. Len(items) :
                   items[j].err = 0 /\ ~Impossible(items[j].pair))

\* C36: try_encode_symbols_reverse takes its items from the last to the
\* first and stops at the first that is an error; that error comes back as
\* InvalidEntropyModel(e), not as the coding error of an impossible symbol;
\* nothing before the item is encoded and what was encoded stays encoded.
C36_TryEncodeStopsAtError ==
    batch.op = "try_encode_symbols_reverse" =>
        LET k == FirstStopFromEnd(batch.pairs)
        IN  /\ batch.ok <=> k = 0
            /\ k = 0 => batch.err = NoError
            /\ (k > 0 /\ batch.pairs[k].err # 0) =>
                  batch.err = TryError("InvalidEntropyModel",
                                       batch.pairs[k].err)
            /\ (k > 0 /\ batch.pairs[k].err = 0) =>
                  batch.err = TryError("CodingError", 0)
            /\ Self = EncodedDownTo(batch.pre, PairsOf(batch.pairs), k)

\* the middle item of three was an error: the last item is encoded, the
\* first is not
C36_Witness ==
    /\ batch.op = "try_encode_symbols_reverse"
    /\ Len(batch.pairs) = 3
    /\ batch.pairs[1].err = 0
    /\ batch.pairs[2].err = 2
    /\ batch.err = TryError("InvalidEntropyModel", 2)
    /\ Self # batch.pre
    /\ Self = EncodeSymbol(batch.pre, batch.pairs[3].pair.model,
                           batch.pairs[3].pair.sym).coder

\* C37: when the backend rejects the position, seek returns Err and the
\* coder's state is the one it had before the call.
C37_FailedSeekKeepsState ==
    batch.op = "seek" =>
        /\ ~CursorSeek(buf, batch.target.pos,
                       batch.target.state < Threshold, Dir) => ~batch.ok
        /\ ~batch.ok => seekable_decoder.state = batch.at.state

\* a rejected seek whose target state differs from the decoder's
C37_Witness ==
    /\ batch.op = "seek"
    /\ ~batch.ok
    /\ batch.target.pos <= Len(buf)
    /\ batch.target.state # batch.at.state
    /\ seekable_decoder.state = batch.at.state

\* C38: on a decoder made by from_compressed over a cursor and moved by
\* decode_symbol and successful seeks, seek(pos_and_state()) succeeds and
\* leaves position and state as they were, also when no word is left while
\* the state is at or above the threshold.
C38_OwnSnapshotSeekable ==
    (batch.op = "seek" /\ batch.target = batch.at) =>
        /\ batch.ok
        /\ seekable_decoder = batch.at

\* C39: a successful encode_symbol on the empty coder leaves state =
\* left_cumulative and bulk empty, so is_empty() holds and num_words() is 0
\* exactly when the left cumulative is 0; a decode_symbol with the same
\* model then returns the symbol.
C39_EmptyAfterEncode ==
    /\ (last.op = "encode_symbol" /\ last.ok /\ last.pre = NewCoder) =>
          /\ state = Answer(last).c
          /\ bulk = <<>>
          /\ IsEmpty(Self) <=> Answer(last).c = 0
          /\ NumWords(Self) = 0 <=> Answer(last).c = 0
    /\ ( /\ last.op = "decode_symbol"
         /\ last2.op = "encode_symbol"
         /\ last2.ok
         /\ last2.pre = NewCoder
         /\ last.model = last2.model ) => last.sym = last2.sym

\* a symbol that is not the only one of its model was encoded onto the empty
\* coder, left it empty, and was decoded again
C39_Witness ==
    /\ last.op = "decode_symbol"
    /\ last2.op = "encode_symbol"
    /\ last2.ok
    /\ last2.pre = NewCoder
    /\ last.model = last2.model
    /\ Len(last.model.probs) > 1
    /\ IsEmpty(last.pre)
    /\ last.sym = last2.sym

=============================================================================
